---- MODULE Spec2Model ----
(***************************************************************************)
(* Solar-System-Generator: the record reducer (getMode, simplifyAstroData),*)
(* the Planet constructor (fixMassRadius) and the system assembler         *)
(* (PlanetarySystem.constructSystem with the PlanetarySystem constructor:  *)
(* getStarMass, fixPeriodAndAxis, getPlanetOrbits).                        *)
(*                                                                         *)
(* The fields of stars and planets are integers here.  A number n >= 0     *)
(* stands for itself; null, undefined, NaN and Infinity are the negative   *)
(* codes below.  The values of a catalog column are records (JsNull,       *)
(* JsString, JsNumber), since a column holds strings as well.              *)
(* Objects (planets, stars, system nodes) live in sequences and are        *)
(* referred to by their index, so that two lists holding the same planet   *)
(* share it, as two JavaScript arrays holding one object do.               *)
(***************************************************************************)
EXTENDS Integers, Sequences, FiniteSets, TLC

\* ------------------------------------------------------------------ bounds
MaxStars == 2
MaxPlanets == 2
MaxColumn == 4
MaxRows == 3
MaxQueryRows == 2

\* --------------------------------------------------------- JavaScript values
NULL == -1
UNDEFINED == -2
NAN == -3
INFINITY == -4

\* x == null (loose): true of null and of undefined
LooseNull(x) == x = NULL \/ x = UNDEFINED

\* ToNumber of a value used as an operand of * or +
ToNumber(x) == IF x = NULL THEN 0 ELSE IF x = UNDEFINED THEN NAN ELSE x

\* a truthy value: not null, undefined, NaN or 0
Truthy(x) == x > 0 \/ x = INFINITY

SeqsUpTo(S, n) == UNION {[1..k -> S] : k \in 0..n}

\* a value of a catalog column: null, a string or a number
JsNull == [type |-> "null", str |-> "", num |-> 0]
JsString(x) == [type |-> "string", str |-> x, num |-> 0]
JsNumber(n) == [type |-> "number", str |-> "", num |-> n]

\* ------------------------------------------------------------------ inputs
HostNames == {"A", "B"}
\* "Z" is a host name no star carries
PlanetHostNames == HostNames \cup {"Z"}
StarMasses == {1, 2}
\* cb_flag: 0, 1, or null (absent)
OrbitBinaryValues == {0, 1, NULL}
\* pl_orbper in days, pl_orbsmax in hundredths, pl_orbeccen
PeriodValues == {NULL, 0, 10}
AxisValues == {NULL, 0, 100}
EccentricityValues == {NULL, 0}
\* Math.random() * 0.15 + 0.1, in hundredths: the ends of [0.10, 0.25)
RandomAxisValues == {10, 24}

\* Star.mjs: the fields the assembler reads
StarObjects == [hostName : HostNames, stellarMass : StarMasses]

\* Planet.mjs: the fields the assembler reads or writes.  Two families of
\* inputs keep the state space small: any host and orbitBinary with a complete
\* orbit or a zero period (GroupingPlanets), and planets of star "A" with
\* every combination of period, axis and eccentricity (OrbitPlanets).
GroupingPlanets ==
  [hostName : PlanetHostNames, orbitBinary : OrbitBinaryValues,
   orbitalPeriod : {0, 10}, semiMajorAxis : {100},
   orbitalEccentricity : {0}, assumptions : {<<>>}]

OrbitPlanets ==
  [hostName : {"A"}, orbitBinary : {0, 1},
   orbitalPeriod : PeriodValues, semiMajorAxis : AxisValues,
   orbitalEccentricity : EccentricityValues, assumptions : {<<>>}]

VARIABLES
  stars,          \* constructSystem's argument: a sequence of Star objects
  planets,        \* the Planet objects, by index; mutated in place
  pc,             \* where constructSystem is
  starIdx,        \* the outer loop's position in stars
  subSystems,     \* constructSystem's local: node ids
  binaryPlanets,  \* constructSystem's local: planet indexes
  loneStars,      \* constructSystem's local: star indexes
  nodes,          \* the PlanetarySystem objects, by id
  cur,            \* the node whose constructor is running (0: none)
  result,         \* what constructSystem returned (0: nothing yet)
  error,          \* the exception that left constructSystem ("": none)
  visits,         \* the iterations of fixPeriodAndAxis' loop so far, in order
  data,           \* new Planet(data): the reduced record
  planet,         \* the Planet under construction
  ppc,            \* where new Planet(data) is
  column,         \* simplifyAstroData: astro[key], one field's values of a group
  reduced,        \* simplifyAstroData: what astro[key] was reduced to
  rpc,            \* where the reduction of the field is
  rows,           \* getObjectLists' argument objectData: a sequence of rows
  dataLists,      \* what getObjectLists returned
  gpc,            \* where getObjectLists is
  queries,        \* fetchSystemData: what each fetchNASAData call returned
  starData,       \* fetchSystemData's local
  planetData,     \* fetchSystemData's local
  fidx,           \* fetchSystemData: the loop's position in starData
  fret,           \* what fetchSystemData returned
  fpc             \* where fetchSystemData (and then main) is

asmVars == <<stars, planets, pc, starIdx, subSystems, binaryPlanets, loneStars,
             nodes, cur, result, error, visits>>
planetVars == <<data, planet, ppc>>
reduceVars == <<column, reduced, rpc>>
groupVars == <<rows, dataLists, gpc>>
fetchVars == <<queries, starData, planetData, fidx, fret, fpc>>
vars == <<asmVars, planetVars, reduceVars, groupVars, fetchVars>>

\* ------------------------------------------------- PlanetarySystem.getStarMass
RECURSIVE SumStellarMass(_, _)
SumStellarMass(ss, idxs) ==
  IF idxs = <<>> THEN 0
  ELSE ToNumber(ss[Head(idxs)].stellarMass) + SumStellarMass(ss, Tail(idxs))

RECURSIVE SumTotalStarMass(_, _)
SumTotalStarMass(ns, ids) ==
  IF ids = <<>> THEN 0
  ELSE ns[Head(ids)].totalStarMass + SumTotalStarMass(ns, Tail(ids))

\* a faulty getStarMass: the sub-systems' masses are left out
getStarMassDirectOnly(node, ss, ns) == SumStellarMass(ss, node.stars)

getStarMass(node, ss, ns) ==
  SumStellarMass(ss, node.stars)
    + (IF node.hasSubSystems THEN SumTotalStarMass(ns, node.subSystems) ELSE 0)

\* -------------------------------------------- PlanetarySystem.fixPeriodAndAxis
\* the least c with c^3 >= n
CubeRootCeil(n) == CHOOSE c \in 0..n : c * c * c >= n /\ \A d \in 0..(c - 1) : d * d * d < n

SqrtCeil(n) == CHOOSE c \in 0..n : c * c >= n /\ \A d \in 0..(c - 1) : d * d < n

\* 164 * cbrt(G * M * P^2 / (4 pi^2)), in hundredths: 164 * cbrt(G / (4 pi^2))
\* is 0.0195, so the result is about 2 * cbrt(M * P^2) hundredths.  null is 0
\* as an operand; the result is 0 exactly when M or P is.
AxisFromPeriod(period, mass) ==
  LET p == ToNumber(period)
      m == ToNumber(mass)
  IN IF p < 0 \/ m < 0 THEN NAN ELSE 2 * CubeRootCeil(m * p * p)

\* sqrt(4 pi^2 * a^3 * 1684 / (G * M)) / 86400, a in hundredths: a division
\* by a zero mass gives Infinity (NaN when a is 0 too).
PeriodFromAxis(axis, mass) ==
  LET a == ToNumber(axis)
      m == ToNumber(mass)
  IN IF a < 0 \/ m < 0 THEN NAN
     ELSE IF m = 0 THEN (IF a = 0 THEN NAN ELSE INFINITY)
     ELSE IF a = 0 THEN 0
     ELSE 1 + SqrtCeil((a * a * a) \div (m * 100))

\* PlanetarySystem.mjs imports Star, Planet and THREE and declares nothing
\* else: the identifier pow (lines 59 and 68) resolves to no binding, and its
\* evaluation throws a ReferenceError.
PowIsDefined == FALSE

\* the three notes, as the source pairs them with its branches
NoteBothZero == "Missing semi-major axis and orbital period"
NotePeriodZero == "Missing semi-major axis"
NoteAxisZero == "Missing orbital period"

\* one iteration of the loop over this.planets; r is Math.random()'s axis
fixPlanet(p, mass, r) ==
  IF p.orbitalPeriod = 0 /\ p.semiMajorAxis = 0
  THEN LET q == [p EXCEPT !.semiMajorAxis = r]
       IN IF ~PowIsDefined
          THEN [planet |-> q, threw |-> TRUE]
          ELSE [planet |-> [q EXCEPT !.orbitalPeriod = PeriodFromAxis(r, mass),
                                     !.assumptions = Append(@, NoteBothZero)],
                threw |-> FALSE]
  ELSE IF p.orbitalPeriod = 0
  THEN IF ~PowIsDefined
       THEN [planet |-> p, threw |-> TRUE]
       ELSE [planet |-> [p EXCEPT !.orbitalPeriod = PeriodFromAxis(p.semiMajorAxis, mass),
                                  !.assumptions = Append(@, NotePeriodZero)],
             threw |-> FALSE]
  ELSE IF p.semiMajorAxis = 0
  THEN [planet |-> [p EXCEPT !.semiMajorAxis = AxisFromPeriod(p.orbitalPeriod, mass),
                             !.assumptions = Append(@, NoteAxisZero)],
        threw |-> FALSE]
  ELSE [planet |-> p, threw |-> FALSE]

\* the loop over this.planets, from position k; it ends at the first throw.
\* visited is the part of this.planets the loop got to.
RECURSIVE fixPlanets(_, _, _, _, _)
fixPlanets(ps, idxs, k, mass, rnd) ==
  IF k > Len(idxs) THEN [planets |-> ps, threw |-> FALSE, visited |-> idxs]
  ELSE LET j == idxs[k]
           r == fixPlanet(ps[j], mass, rnd[j])
           qs == [ps EXCEPT ![j] = r.planet]
       IN IF r.threw THEN [planets |-> qs, threw |-> TRUE, visited |-> SubSeq(idxs, 1, k)]
          ELSE fixPlanets(qs, idxs, k + 1, mass, rnd)

\* the loop's iterations on node id, which holds mass as its totalStarMass
visitsOf(id, visited, mass) ==
  [i \in DOMAIN visited |-> [node |-> id, planet |-> visited[i], mass |-> mass]]

\* --------------------------------------------- PlanetarySystem.getPlanetOrbits
orbitPlanet(p) ==
  IF ~LooseNull(p.semiMajorAxis) /\ ~LooseNull(p.orbitalEccentricity) THEN p
  ELSE IF ~LooseNull(p.orbitalPeriod)
  THEN [p EXCEPT !.assumptions = Append(@, "Assumed circular orbit")]
  ELSE [p EXCEPT !.assumptions = Append(@, "Assumed circular orbit with random radius")]

RECURSIVE orbitPlanets(_, _, _)
orbitPlanets(ps, idxs, k) ==
  IF k > Len(idxs) THEN ps
  ELSE orbitPlanets([ps EXCEPT ![idxs[k]] = orbitPlanet(ps[idxs[k]])], idxs, k + 1)

\* --------------------------------------------- PlanetarySystem.constructSystem
\* the inner loop: the planets of star s with orbitBinary === 0
RECURSIVE starPlanetsOf(_, _, _)
starPlanetsOf(s, ps, k) ==
  IF k > Len(ps) THEN <<>>
  ELSE (IF ps[k].hostName = s.hostName /\ ps[k].orbitBinary = 0 THEN <<k>> ELSE <<>>)
         \o starPlanetsOf(s, ps, k + 1)

\* the inner loop: the planets of star s with a truthy orbitBinary
RECURSIVE binaryPlanetsOf(_, _, _)
binaryPlanetsOf(s, ps, k) ==
  IF k > Len(ps) THEN <<>>
  ELSE (IF ps[k].hostName = s.hostName /\ ps[k].orbitBinary # 0 /\ Truthy(ps[k].orbitBinary)
        THEN <<k>> ELSE <<>>)
         \o binaryPlanetsOf(s, ps, k + 1)

\* the test of line 175
WrapInParent(bin, lone, subs) == Len(bin) # 0 \/ Len(lone) # 0 \/ Len(subs) > 0

NewNode(ss, ps, subs, hasSubs) ==
  [stars |-> ss, planets |-> ps, subSystems |-> subs, hasSubSystems |-> hasSubs,
   totalStarMass |-> UNDEFINED]

\* no Planet is being constructed
PlanetIdle ==
  /\ data = [pl_radj |-> NULL, pl_bmassj |-> NULL, pl_orbsmax |-> NULL, pl_orbeccen |-> NULL]
  /\ planet = data
  /\ ppc = "idle"

\* no field is being reduced
ReduceIdle ==
  /\ column = <<>>
  /\ reduced = JsNull
  /\ rpc = "idle"

\* getObjectLists is not running
GroupIdle ==
  /\ rows = <<>>
  /\ dataLists = <<>>
  /\ gpc = "idle"

\* fetchSystemData is not running
FetchIdle ==
  /\ queries = <<>>
  /\ starData = <<>>
  /\ planetData = <<>>
  /\ fidx = 1
  /\ fret = [kind |-> "none", starData |-> <<>>, planetData |-> <<>>]
  /\ fpc = "idle"

\* constructSystem is not running
AsmIdle ==
  /\ stars = <<>>
  /\ planets = <<>>
  /\ pc = "idle"
  /\ starIdx = 1
  /\ subSystems = <<>>
  /\ binaryPlanets = <<>>
  /\ loneStars = <<>>
  /\ nodes = <<>>
  /\ cur = 0
  /\ result = 0
  /\ error = ""
  /\ visits = <<>>

Init ==
  /\ PlanetIdle
  /\ ReduceIdle
  /\ GroupIdle
  /\ FetchIdle
  /\ \/ /\ stars \in SeqsUpTo(StarObjects, MaxStars)
        /\ planets \in SeqsUpTo(GroupingPlanets, MaxPlanets)
     \/ /\ stars \in {<<s>> : s \in [hostName : {"A"}, stellarMass : StarMasses]}
        /\ planets \in SeqsUpTo(OrbitPlanets, MaxPlanets)
  /\ pc = "loop"
  /\ starIdx = 1
  /\ subSystems = <<>>
  /\ binaryPlanets = <<>>
  /\ loneStars = <<>>
  /\ nodes = <<>>
  /\ cur = 0
  /\ result = 0
  /\ error = ""
  /\ visits = <<>>

\* lines 157-172: one iteration of the loop over stars, up to the constructor
\* call of line 169 or the push of line 171
ScanStar ==
  /\ pc = "loop"
  /\ starIdx <= Len(stars)
  /\ LET s == stars[starIdx]
         starPlanets == starPlanetsOf(s, planets, 1)
     IN /\ binaryPlanets' = binaryPlanets \o binaryPlanetsOf(s, planets, 1)
        /\ IF Len(starPlanets) # 0
           THEN /\ nodes' = Append(nodes, NewNode(<<starIdx>>, starPlanets, <<>>, FALSE))
                /\ cur' = Len(nodes) + 1
                /\ pc' = "getStarMass"
                /\ UNCHANGED <<loneStars, starIdx>>
           ELSE /\ loneStars' = Append(loneStars, starIdx)
                /\ starIdx' = starIdx + 1
                /\ UNCHANGED <<nodes, cur, pc>>
  /\ UNCHANGED <<stars, planets, subSystems, result, error, visits>>
  /\ UNCHANGED <<planetVars, reduceVars, groupVars, fetchVars>>

\* lines 175-179, after the loop: the constructor call of line 176, or the
\* return of subSystems[0]
EndLoop ==
  /\ pc = "loop"
  /\ starIdx > Len(stars)
  /\ IF WrapInParent(binaryPlanets, loneStars, subSystems)
     THEN /\ nodes' = Append(nodes, NewNode(loneStars, binaryPlanets, subSystems, TRUE))
          /\ cur' = Len(nodes) + 1
          /\ pc' = "getStarMass"
          /\ UNCHANGED result
     ELSE /\ result' = (IF Len(subSystems) > 0 THEN subSystems[1] ELSE UNDEFINED)
          /\ pc' = "returned"
          /\ UNCHANGED <<nodes, cur>>
  /\ UNCHANGED <<stars, planets, starIdx, subSystems, binaryPlanets, loneStars, error,
                 visits>>
  /\ UNCHANGED <<planetVars, reduceVars, groupVars, fetchVars>>

\* constructor, line 10
GetStarMass ==
  /\ pc = "getStarMass"
  /\ nodes' = [nodes EXCEPT ![cur].totalStarMass = getStarMass(nodes[cur], stars, nodes)]
  /\ pc' = "fixPeriodAndAxis"
  /\ UNCHANGED <<stars, planets, starIdx, subSystems, binaryPlanets, loneStars,
                 cur, result, error, visits>>
  /\ UNCHANGED <<planetVars, reduceVars, groupVars, fetchVars>>

\* constructor, line 11: the whole pass; an exception leaves the constructor
\* and constructSystem, which catch nothing
FixPeriodAndAxis ==
  /\ pc = "fixPeriodAndAxis"
  /\ \E rnd \in [1..Len(planets) -> RandomAxisValues] :
       LET r == fixPlanets(planets, nodes[cur].planets, 1, nodes[cur].totalStarMass, rnd)
       IN /\ planets' = r.planets
          /\ visits' = visits \o visitsOf(cur, r.visited, nodes[cur].totalStarMass)
          /\ IF r.threw
             THEN /\ pc' = "threw"
                  /\ error' = "ReferenceError"
             ELSE /\ pc' = "getPlanetOrbits"
                  /\ UNCHANGED error
  /\ UNCHANGED <<stars, starIdx, subSystems, binaryPlanets, loneStars, nodes, cur, result>>
  /\ UNCHANGED <<planetVars, reduceVars, groupVars, fetchVars>>

\* constructor, line 12, and the constructor's return: to line 169 (push the
\* sub-system, next star) or to line 176 (return the node)
GetPlanetOrbits ==
  /\ pc = "getPlanetOrbits"
  /\ planets' = orbitPlanets(planets, nodes[cur].planets, 1)
  /\ IF nodes[cur].hasSubSystems
     THEN /\ result' = cur
          /\ pc' = "returned"
          /\ UNCHANGED <<subSystems, starIdx>>
     ELSE /\ subSystems' = Append(subSystems, cur)
          /\ starIdx' = starIdx + 1
          /\ pc' = "loop"
          /\ UNCHANGED result
  /\ cur' = 0
  /\ UNCHANGED <<stars, binaryPlanets, loneStars, nodes, error, visits>>
  /\ UNCHANGED <<planetVars, reduceVars, groupVars, fetchVars>>

Next == ScanStar \/ EndLoop \/ GetStarMass \/ FixPeriodAndAxis \/ GetPlanetOrbits

Spec == Init /\ [][Next]_vars

\* ================================================================ Planet.mjs
\* pl_radj in hundredths of a Jupiter radius, pl_bmassj in hundredths of a
\* Jupiter mass; a key the record lacks reads as undefined
RadiusValues == {UNDEFINED, NULL, 50, 100}
MassValues == {UNDEFINED, NULL, 10, 100}
\* Math.random() * 3 + 0.005, in hundredths: the ends of [0.005, 3.005)
RandomMassValues == {1, 300}

PlanetRecords ==
  [pl_radj : RadiusValues, pl_bmassj : MassValues,
   pl_orbsmax : {UNDEFINED, NULL, 0, 100}, pl_orbeccen : {NULL, 0}]

\* Math.pow(x, 0.55), Math.pow(x, 0.03) and Math.pow(x, 1 / 0.55) in
\* hundredths, rounded, at the values the model feeds them; null is 0 as an
\* operand and undefined is NaN
Pow055(x) ==
  CASE x = UNDEFINED -> NAN
    [] x = NULL -> 0
    [] x = 1 -> 8
    [] x = 10 -> 28
    [] x = 100 -> 100
    [] x = 300 -> 183

Pow003(x) ==
  CASE x = UNDEFINED -> NAN
    [] x = NULL -> 0
    [] x = 10 -> 93
    [] x = 100 -> 100
    [] x = 300 -> 103

PowInv055(x) ==
  CASE x = UNDEFINED -> NAN
    [] x = NULL -> 0
    [] x = 50 -> 28
    [] x = 100 -> 100

\* x < 120 / 308 for x in hundredths: 120 / 308 is 0.3896; NaN compares false
BelowTransition(x) == ToNumber(x) >= 0 /\ ToNumber(x) < 39

\* semiMajorAxis * Math.sqrt(1 - Math.pow(e, 2)) for e null or 0: the root is 1
semiMinorAxisOf(axis, ecc) ==
  IF ToNumber(axis) = NAN \/ ToNumber(ecc) = NAN THEN NAN ELSE ToNumber(axis)

\* Planet.fixMassRadius; r is Math.random()'s mass
fixMassRadius(p, r) ==
  IF p.radius = NULL /\ p.mass = NULL
  THEN [p EXCEPT !.mass = r, !.radius = Pow055(r),
                 !.assumptions = Append(@, "Missing mass and radius")]
  ELSE IF LooseNull(p.radius)
  THEN [p EXCEPT !.radius = IF BelowTransition(p.mass) THEN Pow055(p.mass) ELSE Pow003(p.mass),
                 !.assumptions = Append(@, "Missing radius")]
  ELSE IF LooseNull(p.mass)
  THEN [p EXCEPT !.mass = PowInv055(p.radius),
                 !.assumptions = Append(@, "Missing mass")]
  ELSE p

\* the constructor's projection of the record, lines 3-18 (the fields that
\* are copied and never read again are left out)
projectPlanet(d) ==
  [radius |-> d.pl_radj, mass |-> d.pl_bmassj,
   semiMajorAxis |-> d.pl_orbsmax, orbitalEccentricity |-> d.pl_orbeccen,
   semiMinorAxis |-> semiMinorAxisOf(d.pl_orbsmax, d.pl_orbeccen),
   assumptions |-> <<>>]

InitPlanet ==
  /\ AsmIdle
  /\ ReduceIdle
  /\ GroupIdle
  /\ FetchIdle
  /\ data \in PlanetRecords
  /\ planet = data
  /\ ppc = "new"

\* new Planet(data): the whole constructor
ConstructPlanet ==
  /\ ppc = "new"
  /\ \E r \in RandomMassValues : planet' = fixMassRadius(projectPlanet(data), r)
  /\ ppc' = "constructed"
  /\ UNCHANGED <<data, asmVars, reduceVars, groupVars, fetchVars>>

NextPlanet == ConstructPlanet

SpecPlanet == InitPlanet /\ [][NextPlanet]_vars

\* ============================================ part_000: the record reducer
\* strings of a catalog column; "2" and "10" are canonical array indexes,
\* which an object enumerates first, in ascending numeric order
StringValues == {"a", "b", "2", "10"}
NumberValues == {2, 4}

IsArrayIndex(s) == s \in {"2", "10"}

ArrayIndexOf(s) == IF s = "2" THEN 2 ELSE 10

\* a column holds strings or numbers, with null where a row has no value
Columns ==
  SeqsUpTo({JsNull} \cup {JsString(x) : x \in StringValues}, MaxColumn)
    \cup SeqsUpTo({JsNull} \cup {JsNumber(n) : n \in NumberValues}, MaxColumn)

\* array.filter((element) => element != null)
RECURSIVE filterNonNull(_)
filterNonNull(a) ==
  IF a = <<>> THEN <<>>
  ELSE (IF Head(a).type = "null" THEN <<>> ELSE <<Head(a)>>) \o filterNonNull(Tail(a))

\* getMode, lines 125-132: counts, and its keys in the order they were created
\* (no string of the model names a property of Object.prototype)
RECURSIVE countKeys(_, _, _)
countKeys(a, counts, created) ==
  IF a = <<>> THEN [counts |-> counts, created |-> created]
  ELSE LET key == Head(a).str
       IN IF key \notin DOMAIN counts
          THEN countKeys(Tail(a), (key :> 1) @@ counts, Append(created, key))
          ELSE countKeys(Tail(a), [counts EXCEPT ![key] = @ + 1], created)

\* a sequence of array-index keys in ascending numeric order
RECURSIVE ascendingIndexKeys(_)
ascendingIndexKeys(S) ==
  IF S = {} THEN <<>>
  ELSE LET least == CHOOSE x \in S : \A y \in S : ArrayIndexOf(x) <= ArrayIndexOf(y)
       IN <<least>> \o ascendingIndexKeys(S \ {least})

\* Object.keys(counts): the array-index keys ascending, then the other keys
\* in creation order
objectKeys(created) ==
  ascendingIndexKeys({created[k] : k \in {i \in DOMAIN created : IsArrayIndex(created[i])}})
    \o SelectSeq(created, LAMBDA x : ~IsArrayIndex(x))

\* getMode, lines 134-144: the first key, in Object.keys order, of the
\* highest count
RECURSIVE scanKeys(_, _, _, _)
scanKeys(keys, counts, highestCount, mode) ==
  IF keys = <<>> THEN mode
  ELSE IF counts[Head(keys)] > highestCount
       THEN scanKeys(Tail(keys), counts, counts[Head(keys)], JsString(Head(keys)))
       ELSE scanKeys(Tail(keys), counts, highestCount, mode)

\* undefined: the mode of an empty array
JsUndefined == [type |-> "undefined", str |-> "", num |-> 0]

getMode(a) ==
  LET c == countKeys(a, <<>>, <<>>)
  IN scanKeys(objectKeys(c.created), c.counts, 0, JsUndefined)

\* array.sort((a, b) => a - b)
RECURSIVE insertSorted(_, _)
insertSorted(x, a) ==
  IF a = <<>> THEN <<x>>
  ELSE IF x.num < Head(a).num THEN <<x>> \o a
  ELSE <<Head(a)>> \o insertSorted(x, Tail(a))

RECURSIVE sortAscending(_)
sortAscending(a) ==
  IF a = <<>> THEN <<>> ELSE insertSorted(Head(a), sortAscending(Tail(a)))

\* getMedian of a non-empty array: the mean of the two central values (the
\* model's numbers are even, so the mean is exact)
getMedian(a) ==
  LET sorted == sortAscending(a)
      lower == (Len(a) - 1) \div 2
      upper == Len(a) \div 2
  IN JsNumber((sorted[lower + 1].num + sorted[upper + 1].num) \div 2)

\* simplifyAstroData, lines 165-176: one key of one group
reduceField(a) ==
  LET filteredArray == filterNonNull(a)
      listType == IF filteredArray = <<>> THEN "undefined" ELSE filteredArray[1].type
  IN IF listType = "number" THEN getMedian(filteredArray)
     ELSE IF listType = "string" THEN getMode(filteredArray)
     ELSE JsNull

InitReduce ==
  /\ AsmIdle
  /\ PlanetIdle
  /\ GroupIdle
  /\ FetchIdle
  /\ column \in Columns
  /\ reduced = JsNull
  /\ rpc = "reduce"

\* the reduction of one key; column keeps the field's values as they came in
ReduceField ==
  /\ rpc = "reduce"
  /\ reduced' = reduceField(column)
  /\ rpc' = "done"
  /\ UNCHANGED <<column, asmVars, planetVars, groupVars, fetchVars>>

NextReduce == ReduceField

SpecReduce == InitReduce /\ [][NextReduce]_vars

\* ======================================== part_000: getObjectLists
\* a row is a function from the keys it has to their values; a key it lacks
\* reads as undefined
Identifier == "hostname"
RowKeys == {"hostname", "st_mass"}

FieldValues(key) ==
  IF key = "hostname" THEN {JsString("A"), JsString("B")}
  ELSE {JsNull, JsNumber(2), JsNumber(4)}

RowsOver(K) ==
  {f \in [K -> {JsNull, JsNumber(2), JsNumber(4), JsString("A"), JsString("B")}] :
     \A k \in K : f[k] \in FieldValues(k)}

\* every row over every set of keys, the rows without the identifier included
Rows == UNION {RowsOver(K) : K \in SUBSET RowKeys}

\* object[key]
ReadKey(object, key) == IF key \in DOMAIN object THEN object[key] ELSE JsUndefined

\* lines 79-83: newObject[element] = [object[element]] for every key
newObjectOf(object) == [k \in DOMAIN object |-> <<object[k]>>]

\* lines 92-94: objectList[element].push(object[element]) for every key; the
\* push on a key the list lacks is a call on undefined and throws a TypeError
pushRow(objectList, object) ==
  IF DOMAIN object \subseteq DOMAIN objectList
  THEN [threw |-> FALSE,
        objectList |-> [k \in DOMAIN objectList |->
                          IF k \in DOMAIN object THEN Append(objectList[k], object[k])
                          ELSE objectList[k]]]
  ELSE [threw |-> TRUE, objectList |-> objectList]

\* lines 88-96: the loop over all of dataLists, from position i;
\* objectList[identifier][0] on a list without the identifier reads [0] of
\* undefined and throws a TypeError
RECURSIVE pushToLists(_, _, _, _)
pushToLists(lists, i, object, identifier) ==
  IF i > Len(lists) THEN [threw |-> FALSE, dataLists |-> lists]
  ELSE IF identifier \notin DOMAIN lists[i]
  THEN [threw |-> TRUE, dataLists |-> lists]
  ELSE IF ReadKey(object, identifier) = lists[i][identifier][1]
  THEN LET r == pushRow(lists[i], object)
       IN IF r.threw THEN [threw |-> TRUE, dataLists |-> lists]
          ELSE pushToLists([lists EXCEPT ![i] = r.objectList], i + 1, object, identifier)
  ELSE pushToLists(lists, i + 1, object, identifier)

\* lines 67-98: the loop over objectData, from position k
RECURSIVE groupFrom(_, _, _, _, _)
groupFrom(objectData, k, identifier, lists, storedObjectNames) ==
  IF k > Len(objectData) THEN [threw |-> FALSE, dataLists |-> lists]
  ELSE LET object == objectData[k]
           objectName == ReadKey(object, identifier)
           isNew == \A j \in DOMAIN storedObjectNames : storedObjectNames[j] # objectName
       IN IF isNew
          THEN groupFrom(objectData, k + 1, identifier, Append(lists, newObjectOf(object)),
                         Append(storedObjectNames, objectName))
          ELSE LET r == pushToLists(lists, 1, object, identifier)
               IN IF r.threw THEN r
                  ELSE groupFrom(objectData, k + 1, identifier, r.dataLists,
                                 storedObjectNames)

getObjectLists(objectData, identifier) == groupFrom(objectData, 1, identifier, <<>>, <<>>)

InitGroup ==
  /\ AsmIdle
  /\ PlanetIdle
  /\ ReduceIdle
  /\ FetchIdle
  /\ rows \in SeqsUpTo(Rows, MaxRows)
  /\ dataLists = <<>>
  /\ gpc = "call"

\* getObjectLists(rows, "hostname"): the whole call; a TypeError leaves it
GetObjectLists ==
  /\ gpc = "call"
  /\ LET r == getObjectLists(rows, Identifier)
     IN IF r.threw
        THEN gpc' = "threw" /\ UNCHANGED dataLists
        ELSE gpc' = "returned" /\ dataLists' = r.dataLists
  /\ UNCHANGED <<rows, asmVars, planetVars, reduceVars, fetchVars>>

NextGroup == GetObjectLists

SpecGroup == InitGroup /\ [][NextGroup]_vars

\* ============================= part_000: simplifyAstroData, fetchSystemData
\* what fetchNASAData resolves to: the rows of the response, or, when the
\* request failed, the Error its catch handler returns (lines 43-46)
QueryFailed == [failed |-> TRUE, rows |-> <<>>]
QueryRows(rs) == [failed |-> FALSE, rows |-> rs]

\* the rows of table stellarhosts: every selected column is a key of every row
StarRows == {r \in RowsOver({"hostname", "st_mass"}) : r["st_mass"] # JsNumber(4)}

\* the rows of table pscomppars for hostname = host
PlanetNames == {"b", "c"}
PlanetRows(host) ==
  {[pl_name |-> JsString(n), hostname |-> JsString(host)] : n \in PlanetNames}

StarResponses == {QueryFailed} \cup {QueryRows(rs) : rs \in SeqsUpTo(StarRows, MaxQueryRows)}
PlanetResponses(host) ==
  {QueryFailed} \cup {QueryRows(rs) : rs \in SeqsUpTo(PlanetRows(host), MaxQueryRows)}

\* lines 158-181; for...of over an Error (line 67) throws a TypeError, as does
\* getObjectLists where it throws
simplifyAstroData(astroData, identifier) ==
  IF astroData.failed THEN [threw |-> TRUE, reducedData |-> <<>>]
  ELSE LET astroLists == getObjectLists(astroData.rows, identifier)
       IN IF astroLists.threw THEN [threw |-> TRUE, reducedData |-> <<>>]
          ELSE [threw |-> FALSE,
                reducedData |->
                  [i \in DOMAIN astroLists.dataLists |->
                     [key \in DOMAIN astroLists.dataLists[i] |->
                        reduceField(astroLists.dataLists[i][key])]]]

\* the value fetchSystemData resolves to
NoReturn == [kind |-> "none", starData |-> <<>>, planetData |-> <<>>]
ReturnError == [kind |-> "error", starData |-> <<>>, planetData |-> <<>>]
ReturnPair(sd, pd) == [kind |-> "data", starData |-> sd, planetData |-> pd]

InitFetch ==
  /\ AsmIdle
  /\ PlanetIdle
  /\ ReduceIdle
  /\ GroupIdle
  /\ queries = <<>>
  /\ starData = <<>>
  /\ planetData = <<>>
  /\ fidx = 1
  /\ fret = NoReturn
  /\ fpc = "stars"

\* lines 198-211: the star query and its reduction; the catch returns the error
FetchStars ==
  /\ fpc = "stars"
  /\ \E rawStarData \in StarResponses :
       LET r == simplifyAstroData(rawStarData, "hostname")
       IN /\ queries' = Append(queries, [table |-> "stellarhosts", star |-> 0,
                                         response |-> rawStarData])
          /\ IF r.threw
             THEN /\ fret' = ReturnError
                  /\ fpc' = "returned"
                  /\ UNCHANGED starData
             ELSE /\ starData' = r.reducedData
                  /\ fpc' = "planets"
                  /\ UNCHANGED fret
  /\ UNCHANGED <<planetData, fidx>>
  /\ UNCHANGED <<asmVars, planetVars, reduceVars, groupVars>>

\* lines 215-227: one turn of the loop over starData; the catch logs the error
\* and the loop goes on
FetchPlanets ==
  /\ fpc = "planets"
  /\ fidx <= Len(starData)
  /\ \E rawPlanetData \in PlanetResponses(starData[fidx]["hostname"].str) :
       LET r == simplifyAstroData(rawPlanetData, "pl_name")
       IN /\ queries' = Append(queries, [table |-> "pscomppars", star |-> fidx,
                                         response |-> rawPlanetData])
          /\ planetData' = IF r.threw THEN planetData ELSE planetData \o r.reducedData
  /\ fidx' = fidx + 1
  /\ UNCHANGED <<starData, fret, fpc>>
  /\ UNCHANGED <<asmVars, planetVars, reduceVars, groupVars>>

\* line 229: return [starData, planetData]
ReturnData ==
  /\ fpc = "planets"
  /\ fidx > Len(starData)
  /\ fret' = ReturnPair(starData, planetData)
  /\ fpc' = "returned"
  /\ UNCHANGED <<queries, starData, planetData, fidx>>
  /\ UNCHANGED <<asmVars, planetVars, reduceVars, groupVars>>

\* main, line 262: const [starData, planetData] = await fetchSystemData(...);
\* destructuring an Error, which is not iterable, throws a TypeError
Destructure ==
  /\ fpc = "returned"
  /\ fpc' = IF fret.kind = "error" THEN "mainThrew" ELSE "createSystem"
  /\ UNCHANGED <<queries, starData, planetData, fidx, fret>>
  /\ UNCHANGED <<asmVars, planetVars, reduceVars, groupVars>>

NextFetch ==
  \/ FetchStars
  \/ FetchPlanets
  \/ ReturnData
  \/ Destructure

SpecFetch == InitFetch /\ [][NextFetch]_vars

\* ======================================================== the assembler's claims
Returned == pc = "returned"
Threw == pc = "threw"
Ended == Returned \/ Threw
\* constructSystem returned a PlanetarySystem (not undefined)
ReturnedNode == Returned /\ result >= 1

Range(s) == {s[k] : k \in DOMAIN s}

Count(s, x) == Cardinality({k \in DOMAIN s : s[k] = x})

\* how often planet k is held in the tree under node id
RECURSIVE PlanetCount(_, _)
PlanetCount(id, k) ==
  LET n == nodes[id]
      RECURSIVE InSubs(_)
      InSubs(ids) == IF ids = <<>> THEN 0 ELSE PlanetCount(Head(ids), k) + InSubs(Tail(ids))
  IN Count(n.planets, k) + InSubs(n.subSystems)

\* how often star k is held in the tree under node id
RECURSIVE StarCount(_, _)
StarCount(id, k) ==
  LET n == nodes[id]
      RECURSIVE InSubs(_)
      InSubs(ids) == IF ids = <<>> THEN 0 ELSE StarCount(Head(ids), k) + InSubs(Tail(ids))
  IN Count(n.stars, k) + InSubs(n.subSystems)

\* the stellar mass of every star held in the tree under node id
RECURSIVE TreeStarMass(_)
TreeStarMass(id) ==
  LET n == nodes[id]
      RECURSIVE InSubs(_)
      InSubs(ids) == IF ids = <<>> THEN 0 ELSE TreeStarMass(Head(ids)) + InSubs(Tail(ids))
      RECURSIVE Direct(_)
      Direct(ks) == IF ks = <<>> THEN 0 ELSE stars[Head(ks)].stellarMass + Direct(Tail(ks))
  IN Direct(n.stars) + InSubs(n.subSystems)

RECURSIVE AllStarMass(_)
AllStarMass(k) == IF k = 0 THEN 0 ELSE stars[k].stellarMass + AllStarMass(k - 1)

\* C1: partition completeness.  Whenever constructSystem returns a tree, each
\* input planet is held in exactly one place of it (the top-level planets or
\* the planets of one sub-system), whatever its hostName and orbitBinary.
C1_PartitionComplete ==
  ReturnedNode => \A k \in DOMAIN planets : PlanetCount(result, k) = 1

\* C2: mass conservation.  Every constructed node's totalStarMass is the sum
\* of its direct stars' stellarMass plus its sub-systems' totalStarMass, which
\* is the stellarMass of all stars in its subtree; the returned root's
\* totalStarMass is the sum of stellarMass over all input stars.
C2_MassConservation ==
  /\ \A id \in DOMAIN nodes :
       nodes[id].totalStarMass # UNDEFINED =>
         /\ nodes[id].totalStarMass = TreeStarMass(id)
         /\ \A c \in Range(nodes[id].subSystems) : nodes[c].totalStarMass # UNDEFINED
  /\ ReturnedNode => nodes[result].totalStarMass = AllStarMass(Len(stars))

\* a returned root that holds a lone star and a sub-system of another mass
C2_Witness ==
  /\ ReturnedNode
  /\ Len(nodes[result].stars) = 1
  /\ Len(nodes[result].subSystems) = 1
  /\ nodes[result].totalStarMass = 3
  /\ nodes[nodes[result].subSystems[1]].totalStarMass = 2

\* C3: the degenerate case.  When the grouping ends with no lone star, no
\* circumbinary planet and exactly one sub-system, constructSystem returns
\* that sub-system itself.
C3_SingleSubSystemReturned ==
  (Returned /\ Len(loneStars) = 0 /\ Len(binaryPlanets) = 0 /\ Len(subSystems) = 1)
    => result = subSystems[1]

\* one star, and a non-empty list of planets all hosted by it with orbitBinary 0
OneStarWithItsPlanets ==
  /\ Len(stars) = 1
  /\ Len(planets) >= 1
  /\ \A k \in DOMAIN planets :
       planets[k].hostName = stars[1].hostName /\ planets[k].orbitBinary = 0

\* the result C4 describes: an empty top level over one sub-system that holds
\* the star and all the planets
WrappedSingleSubSystem ==
  /\ ReturnedNode
  /\ nodes[result].stars = <<>>
  /\ nodes[result].planets = <<>>
  /\ Len(nodes[result].subSystems) = 1
  /\ LET sub == nodes[nodes[result].subSystems[1]]
     IN /\ sub.stars = <<1>>
        /\ Range(sub.planets) = DOMAIN planets
        /\ Len(sub.planets) = Len(planets)
  /\ nodes[result].totalStarMass = stars[1].stellarMass

\* C4: for one star and a non-empty list of planets all hosted by it with
\* orbitBinary = 0, constructSystem returns a System with empty top-level stars
\* and planets, one sub-system holding the star and all the planets, and the
\* star's mass as totalStarMass.
C4_OneStarScenario ==
  (Ended /\ OneStarWithItsPlanets) => WrappedSingleSubSystem

\* what holds of the code: C4's result whenever the call returns
C4_WhenReturned ==
  (Returned /\ OneStarWithItsPlanets) => WrappedSingleSubSystem

\* C5: constructSystem with no stars and no planets ends in an error; it never
\* returns a value.
C5_EmptyInputIsAnError ==
  (Len(stars) = 0 /\ Len(planets) = 0) => ~Returned

\* star k has a planet of its hostName with orbitBinary 0
HasSingleStarPlanet(k) ==
  \E j \in DOMAIN planets :
    planets[j].hostName = stars[k].hostName /\ planets[j].orbitBinary = 0

\* star k is the sole star of a sub-system of the root that holds exactly the
\* star's orbitBinary = 0 planets and no nested sub-system
InOwnSubSystem(k) ==
  \E c \in Range(nodes[result].subSystems) :
    /\ nodes[c].stars = <<k>>
    /\ nodes[c].subSystems = <<>>
    /\ Range(nodes[c].planets) =
         {j \in DOMAIN planets :
            planets[j].hostName = stars[k].hostName /\ planets[j].orbitBinary = 0}

StarsPlaced ==
  /\ ReturnedNode
  /\ \A k \in DOMAIN stars :
       /\ StarCount(result, k) = 1
       /\ InOwnSubSystem(k) <=> HasSingleStarPlanet(k)
       /\ ~HasSingleStarPlanet(k) => Count(nodes[result].stars, k) = 1

\* C6: star placement.  Every input star is held exactly once in the result:
\* as the sole star of its own sub-system iff a planet has its hostName and
\* orbitBinary = 0, and otherwise among the top-level stars.
C6_StarPlacement ==
  (Ended /\ Len(stars) >= 1) => StarsPlaced

\* what holds of the code: C6's placement whenever the call returns
C6_WhenReturned ==
  (Returned /\ Len(stars) >= 1) => StarsPlaced

\* a period or an axis that is zero or missing
Missing(x) == x = 0 \/ x = NULL

NonZeroNumber(x) == x > 0

FixUpNotes == {NoteBothZero, NotePeriodZero, NoteAxisZero}

\* the notes the step appended to planet k
Appended(k) ==
  SubSeq(planets'[k].assumptions, Len(planets[k].assumptions) + 1,
         Len(planets'[k].assumptions))

\* C7: the fix-up fills what is missing.  On a node with totalStarMass > 0, a
\* direct planet that enters fixPeriodAndAxis with its period and/or its axis
\* zero or missing leaves it, without an error, with both fields non-zero
\* numbers, the field that was present unchanged, and one fix-up note appended.
C7_FixUpFillsMissing ==
  [][(FixPeriodAndAxis /\ nodes[cur].totalStarMass > 0) =>
       \A k \in Range(nodes[cur].planets) :
         (Missing(planets[k].orbitalPeriod) \/ Missing(planets[k].semiMajorAxis)) =>
           /\ pc' # "threw"
           /\ NonZeroNumber(planets'[k].orbitalPeriod)
           /\ NonZeroNumber(planets'[k].semiMajorAxis)
           /\ ~Missing(planets[k].orbitalPeriod) =>
                planets'[k].orbitalPeriod = planets[k].orbitalPeriod
           /\ ~Missing(planets[k].semiMajorAxis) =>
                planets'[k].semiMajorAxis = planets[k].semiMajorAxis
           /\ Len(Appended(k)) = 1
           /\ Appended(k)[1] \in FixUpNotes]_vars

\* the one case of C7 the code handles: a zero axis beside a period that is present
C7_ZeroAxisCase ==
  [][(FixPeriodAndAxis /\ nodes[cur].totalStarMass > 0 /\ pc' # "threw") =>
       \A k \in Range(nodes[cur].planets) :
         (planets[k].semiMajorAxis = 0 /\ ~Missing(planets[k].orbitalPeriod)) =>
           /\ NonZeroNumber(planets'[k].semiMajorAxis)
           /\ planets'[k].orbitalPeriod = planets[k].orbitalPeriod
           /\ Len(Appended(k)) = 1]_vars

\* C8: every note fixPeriodAndAxis appends names exactly the field(s) that
\* were missing when the planet entered the pass.
C8_NoteNamesMissingField ==
  [][FixPeriodAndAxis =>
       \A k \in Range(nodes[cur].planets) :
         \A n \in Range(Appended(k)) :
           /\ n = "Missing orbital period" =>
                Missing(planets[k].orbitalPeriod) /\ ~Missing(planets[k].semiMajorAxis)
           /\ n = "Missing semi-major axis" =>
                Missing(planets[k].semiMajorAxis) /\ ~Missing(planets[k].orbitalPeriod)
           /\ n = "Missing semi-major axis and orbital period" =>
                Missing(planets[k].semiMajorAxis) /\ Missing(planets[k].orbitalPeriod)]_vars

\* ============================================================ Planet's claims
Constructed == ppc = "constructed"

\* absent: null, or not present in the record
Absent(x) == x = NULL \/ x = UNDEFINED

ImputationBranches(absent(_)) ==
  /\ (absent(data.pl_radj) /\ absent(data.pl_bmassj)) =>
       /\ planet.assumptions = <<"Missing mass and radius">>
       /\ ~Absent(planet.radius) /\ ~Absent(planet.mass)
  /\ (absent(data.pl_radj) /\ ~Absent(data.pl_bmassj)) =>
       /\ planet.assumptions = <<"Missing radius">>
       /\ ~Absent(planet.radius)
       /\ planet.mass = data.pl_bmassj
  /\ (~Absent(data.pl_radj) /\ absent(data.pl_bmassj)) =>
       /\ planet.assumptions = <<"Missing mass">>
       /\ ~Absent(planet.mass)
       /\ planet.radius = data.pl_radj
  /\ (~Absent(data.pl_radj) /\ ~Absent(data.pl_bmassj)) =>
       /\ planet.assumptions = <<>>
       /\ planet.radius = data.pl_radj
       /\ planet.mass = data.pl_bmassj

\* C9: the Planet constructor fires exactly one of four branches, chosen by
\* which of mass and radius are absent (null or not present in the record):
\* it appends exactly the note of the case, sets the absent field(s), leaves a
\* present field unchanged, and leaves mass and radius both present.
C9_ImputationBranches ==
  Constructed =>
    /\ ImputationBranches(Absent)
    /\ ~Absent(planet.radius) /\ ~Absent(planet.mass)

\* what holds of the code: C9's branches when an absent field is null
IsNull(x) == x = NULL

C9_WhenAbsentIsNull ==
  Constructed => ImputationBranches(IsNull)

\* =========================================================== reducer's claims
Reduced == rpc = "done"

\* the strings of the column, nulls dropped
ColumnStrings == filterNonNull(column)

IsStringColumn == ColumnStrings # <<>> /\ ColumnStrings[1].type = "string"

Occurrences(a, x) == Cardinality({k \in DOMAIN a : a[k] = x})

FirstPosition(a, x) == CHOOSE k \in DOMAIN a : a[k] = x /\ \A j \in 1..(k - 1) : a[j] # x

\* the value of the highest occurrence count that occurs first in the array
FirstMostFrequent(a) ==
  CHOOSE x \in Range(a) :
    /\ \A y \in Range(a) : Occurrences(a, y) <= Occurrences(a, x)
    /\ \A y \in Range(a) :
         Occurrences(a, y) = Occurrences(a, x) => FirstPosition(a, x) <= FirstPosition(a, y)

\* C10: the mode of a non-empty array of strings is the value of the highest
\* occurrence count, and among several of that count the one that occurs
\* first in the array, also for strings that look like non-negative integers.
C10_ModeFirstOnTie ==
  (Reduced /\ IsStringColumn) => reduced = FirstMostFrequent(ColumnStrings)

\* what holds of the code: C10's tie-break unless two array-index strings tie
C10_WhenNoIndexStrings ==
  (Reduced /\ IsStringColumn /\ \A k \in DOMAIN ColumnStrings : ~IsArrayIndex(ColumnStrings[k].str))
    => reduced = FirstMostFrequent(ColumnStrings)

\* ===================================================== getObjectLists' claims
GroupReturned == gpc = "returned"
GroupEnded == gpc \in {"returned", "threw"}

HasIdentifier(row) == Identifier \in DOMAIN row

\* the positions of the rows of identifier value v, in row order
RECURSIVE PositionsOf(_, _)
PositionsOf(v, k) ==
  IF k > Len(rows) THEN <<>>
  ELSE (IF ReadKey(rows[k], Identifier) = v THEN <<k>> ELSE <<>>) \o PositionsOf(v, k + 1)

\* the identifier values of the rows in first-seen order
RECURSIVE FirstSeen(_, _)
FirstSeen(k, seen) ==
  IF k > Len(rows) THEN seen
  ELSE LET v == ReadKey(rows[k], Identifier)
       IN FirstSeen(k + 1, IF v \in Range(seen) THEN seen ELSE Append(seen, v))

\* the group C11 describes for the rows at positions ps: every key of any of
\* the rows, with one entry per row, null where the row lacks the key
ExpectedGroup(ps) ==
  [key \in UNION {DOMAIN rows[ps[i]] : i \in DOMAIN ps} |->
     [i \in DOMAIN ps |->
        IF key \in DOMAIN rows[ps[i]] THEN rows[ps[i]][key] ELSE JsNull]]

GroupsAsDescribed ==
  /\ GroupReturned
  /\ LET ids == FirstSeen(1, <<>>)
     IN /\ Len(dataLists) = Len(ids)
        /\ \A g \in DOMAIN ids : dataLists[g] = ExpectedGroup(PositionsOf(ids[g], 1))

\* C11: groups appear in first-seen order of their identifier, and in each
\* group every field name present in any row of the group is a key whose
\* array has one entry per row of the group, in row order, with null where a
\* row lacks the field; the call completes when the rows of one group have
\* different key sets.  (Rows without the identifier are C12's.)
C11_FieldArrays ==
  (GroupEnded /\ \A k \in DOMAIN rows : HasIdentifier(rows[k])) => GroupsAsDescribed

\* the rows of one identifier value have one key set
SameKeysPerGroup ==
  \A j, k \in DOMAIN rows :
    ReadKey(rows[j], Identifier) = ReadKey(rows[k], Identifier)
      => DOMAIN rows[j] = DOMAIN rows[k]

\* what holds of the code: C11's groups when the rows of each group have the
\* key set of the group's first row
C11_WhenSameKeys ==
  (GroupEnded /\ SameKeysPerGroup /\ \A k \in DOMAIN rows : HasIdentifier(rows[k]))
    => GroupsAsDescribed

\* the rows without the identifier
NoIdRows == {k \in DOMAIN rows : ~HasIdentifier(rows[k])}

\* C12: each row without the identifier ends up in a group of its own, the
\* grouping completes without throwing (also with two or more such rows, or
\* with a duplicate-identifier row after such a row), and no group that has
\* an identifier holds such a row's values.
C12_RowsWithoutIdentifier ==
  GroupEnded =>
    /\ GroupReturned
    /\ \E f \in [NoIdRows -> DOMAIN dataLists] :
         /\ \A j, k \in NoIdRows : j # k => f[j] # f[k]
         /\ \A k \in NoIdRows : dataLists[f[k]] = newObjectOf(rows[k])
    /\ \A g \in DOMAIN dataLists :
         Identifier \in DOMAIN dataLists[g] =>
           dataLists[g] = ExpectedGroup(PositionsOf(dataLists[g][Identifier][1], 1))

\* what holds of the code: a single row without the identifier gets a group
\* of its own when no row after it repeats an identifier
C12_WhenNoLaterDuplicate ==
  (GroupEnded /\ SameKeysPerGroup /\ \E k \in DOMAIN rows :
       /\ NoIdRows = {k}
       /\ \A j \in (k + 1)..Len(rows) : \A i \in 1..(j - 1) :
            ReadKey(rows[i], Identifier) # ReadKey(rows[j], Identifier))
    => /\ GroupReturned
       /\ \E g \in DOMAIN dataLists : \A k \in NoIdRows :
            dataLists[g] = newObjectOf(rows[k])

\* =================================================== fetchSystemData's claims
FetchReturned == fpc \in {"returned", "mainThrew", "createSystem"}

FailedQueries == {q \in DOMAIN queries : queries[q].response.failed}

StarQueryFailed == \E q \in FailedQueries : queries[q].table = "stellarhosts"

\* the stars whose planet query failed
StarsWithFailedQuery == {queries[q].star : q \in FailedQueries} \ {0}

\* C13: an empty row sequence yields an empty group set and no error; a
\* failure value from any query reaches the caller as an error, so a failed
\* planet query never ends in a returned [starData, planetData] that merely
\* lacks that star's planets.
C13_QueryFailureIsAnError ==
  FetchReturned =>
    /\ FailedQueries # {} => fret.kind = "error"
    /\ (\A q \in DOMAIN queries : queries[q].response = QueryRows(<<>>))
         => fret = ReturnPair(<<>>, <<>>)

\* what holds of the code: the empty response, and the failure of the star
\* query, which is returned as the caught error
C13_WhenStarQueryFails ==
  FetchReturned =>
    /\ StarQueryFailed => fret.kind = "error"
    /\ (\A q \in DOMAIN queries : queries[q].response = QueryRows(<<>>))
         => fret = ReturnPair(<<>>, <<>>)

\* the failed planet query: the pair is returned all the same
C13_PlanetFailureSwallowed ==
  (FetchReturned /\ ~StarQueryFailed /\ StarsWithFailedQuery # {})
    => /\ fret.kind = "data"
       /\ \A p \in DOMAIN fret.planetData :
            \A i \in StarsWithFailedQuery :
              fret.planetData[p]["hostname"] # fret.starData[i]["hostname"]

\* ========================================================= assembly order
\* the iterations of the fix-up loop that were on planet k
VisitsTo(k) == {i \in DOMAIN visits : visits[i].planet = k}

\* every sub-system of a node with a totalStarMass has its own, and has left
\* its constructor
ChildrenBeforeParent ==
  \A id \in DOMAIN nodes :
    nodes[id].totalStarMass # UNDEFINED =>
      \A c \in Range(nodes[id].subSystems) :
        /\ nodes[c].totalStarMass # UNDEFINED
        /\ c # cur
        /\ c < id

\* every iteration was on a direct planet of its node and had the node's
\* totalStarMass, which was set
FixUpOnDirectPlanets ==
  \A i \in DOMAIN visits :
    /\ visits[i].mass # UNDEFINED
    /\ visits[i].mass = nodes[visits[i].node].totalStarMass
    /\ visits[i].planet \in Range(nodes[visits[i].node].planets)

\* every planet of the returned tree was visited exactly once
VisitedOnce ==
  ReturnedNode =>
    \A k \in DOMAIN planets :
      PlanetCount(result, k) >= 1 => Cardinality(VisitsTo(k)) = 1

\* C14: bottom-up order of assembly.  Each sub-system has its totalStarMass
\* and is complete before its parent's totalStarMass is computed; the fix-up
\* of a node runs after the node's totalStarMass is set and only over its
\* direct planets; so every planet of the output tree is visited by the
\* fix-up exactly once, with the totalStarMass of the node that holds it.
C14_BottomUpOrder ==
  /\ ChildrenBeforeParent
  /\ FixUpOnDirectPlanets
  /\ VisitedOnce

\* no two input stars share a hostName
HostNamesDistinct ==
  \A i, j \in DOMAIN stars : stars[i].hostName = stars[j].hostName => i = j

\* what holds of the code: the order in every run, and the single visit when
\* no two stars share a hostName
C14_WhenHostNamesDistinct ==
  /\ ChildrenBeforeParent
  /\ FixUpOnDirectPlanets
  /\ HostNamesDistinct => VisitedOnce

====
